---- MODULE Spec2Model ----
(***************************************************************************)
(* Pattern binding and evaluation of slang (source/binding/Patterns.cpp).  *)
(*                                                                         *)
(* Pointers that may be null are sequences of length 0 or 1.  A syntax     *)
(* node is identified by its path from the root of the pattern syntax; a   *)
(* source location or range is the path of the syntax node it belongs to.  *)
(* Pattern variable symbols live in the compilation's arena `syms` and are *)
(* identified by their index in it (0 is the null symbol pointer).         *)
(***************************************************************************)
EXTENDS Integers, Sequences, FiniteSets, TLC

VARIABLES pc, syntax, targetType, pattern, varMap, syms, firstTempVar, diags,
          value, result, locals, created, visited, nevals, threads

vars == <<pc, syntax, targetType, pattern, varMap, syms, firstTempVar, diags,
          value, result, locals, created, visited, nevals, threads>>

\* Number of evaluations of one bound pattern on one evaluation context.
MaxEvals == 2

Null == <<>>

Pow2(n) == 2 ^ n

-----------------------------------------------------------------------------
(* Types: the queries of Type that the binder and the evaluator consume.   *)

ErrorType == [kind |-> "error"]

IntType(w) == [kind |-> "int", width |-> w]

Field(n, t, o) == [name |-> n, type |-> t, offset |-> o]

Bit1 == IntType(1)

Bit2 == IntType(2)

Nib == IntType(4)

\* struct packed { logic [3:0] b; logic [3:0] a; }: a is the low nibble.
Packed8 == [kind |-> "struct", packed |-> TRUE,
            fields |-> <<Field("b", Nib, 4), Field("a", Nib, 0)>>]

\* struct packed { logic b; logic [1:0] a; }
Packed3 == [kind |-> "struct", packed |-> TRUE,
            fields |-> <<Field("b", Bit1, 2), Field("a", Bit2, 0)>>]

\* struct { logic a; logic b; logic c; }
Unpacked3 == [kind |-> "struct", packed |-> FALSE,
              fields |-> <<Field("a", Bit1, 0), Field("b", Bit1, 1), Field("c", Bit1, 2)>>]

\* struct { logic a; logic b; }
Unpacked2 == [kind |-> "struct", packed |-> FALSE,
              fields |-> <<Field("a", Bit1, 0), Field("b", Bit1, 1)>>]

\* union tagged { logic m0; struct { logic a; logic b; } m1; }
TaggedU == [kind |-> "union", tagged |-> TRUE,
            fields |-> <<Field("m0", Bit1, 0), Field("m1", Unpacked2, 1)>>]

\* struct { TaggedU a; logic b; }
Outer == [kind |-> "struct", packed |-> FALSE,
          fields |-> <<Field("a", TaggedU, 0), Field("b", Bit1, 1)>>]

TypeSet == {ErrorType, Bit1, Packed8, Packed3, Unpacked3, TaggedU, Outer}

isError(t) == t.kind = "error"

isTaggedUnion(t) == t.kind = "union" /\ t.tagged

isStruct(t) == t.kind = "struct"

isIntegral(t) == t.kind = "int" \/ (t.kind = "struct" /\ t.packed)

RECURSIVE SumWidths(_, _)
RECURSIVE getBitWidth(_)
SumWidths(fields, i) ==
    IF i > Len(fields) THEN 0
    ELSE getBitWidth(fields[i].type) + SumWidths(fields, i + 1)

getBitWidth(t) ==
    IF t.kind = "int" THEN t.width
    ELSE IF isIntegral(t) THEN SumWidths(t.fields, 1)
    ELSE 0

\* Scope::find: the index (1-based, in declaration order) of the member of
\* that name, 0 when there is none.
Scope_find(t, name) ==
    IF \E i \in 1..Len(t.fields) : t.fields[i].name = name
    THEN CHOOSE i \in 1..Len(t.fields) : t.fields[i].name = name
    ELSE 0

-----------------------------------------------------------------------------
(* Constant values.                                                        *)

BadValue == [k |-> "bad"]

SVInt(w, v) == [k |-> "int", w |-> w, v |-> v % Pow2(w)]

UnionVal(m, v) == [k |-> "union", activeMember |-> m, value |-> <<v>>]

Elements(es) == [k |-> "unpacked", elems |-> es]

bad(cv) == cv.k = "bad"

isUnpacked(cv) == cv.k = "unpacked"

isTrue(cv) == cv.k = "int" /\ cv.v # 0

\* SVInt::slice(msb, lsb)
slice(cvi, msb, lsb) == SVInt(msb - lsb + 1, cvi.v \div Pow2(lsb))

\* Values of the wide packed struct the evaluations are run on.
WideSamples == {183, 167, 123, 119, 0, 255}

IntValues(w) == IF w <= 3 THEN 0..(Pow2(w) - 1) ELSE WideSamples

RECURSIVE ValuesOf(_)
RECURSIVE ElementLists(_, _)
\* The element lists of an unpacked struct; an element may itself be bad.
ElementLists(fields, i) ==
    IF i > Len(fields) THEN {<<>>}
    ELSE {<<e>> \o rest : e \in ValuesOf(fields[i].type) \cup {BadValue},
                          rest \in ElementLists(fields, i + 1)}

ValuesOf(t) ==
    IF isIntegral(t) THEN {SVInt(getBitWidth(t), v) : v \in IntValues(getBitWidth(t))}
    ELSE IF isStruct(t) THEN {Elements(es) : es \in ElementLists(t.fields, 1)}
    ELSE IF isTaggedUnion(t)
    THEN UNION {{UnionVal(t.fields[i].offset, v) :
                    v \in ValuesOf(t.fields[i].type) \cup {BadValue}} :
                i \in 1..Len(t.fields)}
    ELSE {}

InputValues(t) == ValuesOf(t) \cup {BadValue}

-----------------------------------------------------------------------------
(* Pattern syntax.                                                         *)

Wild == [kind |-> "WildcardPattern"]

Var(n) == [kind |-> "VariablePattern", variableName |-> n]

Paren(p) == [kind |-> "ParenthesizedPattern", pattern |-> <<p>>]

\* An expression syntax: whether it binds without error, whether it folds
\* to a constant, and the integer it then denotes.
Lit(n) == [kind |-> "ExpressionPattern", expr |-> [ok |-> TRUE, const |-> TRUE, n |-> n]]

NonConst == [kind |-> "ExpressionPattern", expr |-> [ok |-> TRUE, const |-> FALSE, n |-> 0]]

BadExpr == [kind |-> "ExpressionPattern", expr |-> [ok |-> FALSE, const |-> FALSE, n |-> 0]]

Tag(m) == [kind |-> "TaggedPattern", memberName |-> m, pattern |-> Null]

TagP(m, p) == [kind |-> "TaggedPattern", memberName |-> m, pattern |-> <<p>>]

Ordered(ps) ==
    [kind |-> "StructurePattern",
     members |-> [i \in 1..Len(ps) |->
                    [kind |-> "OrderedStructurePatternMember", pattern |-> <<ps[i]>>]]]

Named(nps) ==
    [kind |-> "StructurePattern",
     members |-> [i \in 1..Len(nps) |->
                    [kind |-> "NamedStructurePatternMember",
                     name |-> nps[i][1], pattern |-> <<nps[i][2]>>]]]

LeafSyntax ==
    {Wild, Var("x"), Var(""), Lit(0), Lit(1), NonConst, BadExpr,
     Paren(Wild), Paren(Paren(Var("x"))), Paren(Lit(1))}

TaggedSyntax ==
    {Tag("m0"), Tag("zz"), Tag(""),
     TagP("m0", Var("x")), TagP("m0", Lit(1)), TagP("m0", BadExpr),
     TagP("zz", Var("x")), TagP("", Var("x")),
     TagP("m1", Ordered(<<Var("x"), Var("y")>>)),
     TagP("m1", Ordered(<<Var("x"), Var("x")>>)),
     TagP("m1", Ordered(<<Lit(1), Var("x")>>)),
     TagP("m1", Paren(Named(<<<<"b", Var("x")>>, <<"a", Lit(0)>>>>)))}

OrderedSyntax ==
    {Ordered(<<>>),
     Ordered(<<Var("x")>>),
     Ordered(<<Var("x"), Var("y")>>),
     Ordered(<<Var("x"), Lit(0)>>),
     Ordered(<<Lit(0), Var("x")>>),
     Ordered(<<Var("x"), Var("y"), Wild>>),
     Ordered(<<Lit(0), Var("x"), Lit(1)>>),
     Ordered(<<Var("x"), Lit(0), Var("y")>>),
     Ordered(<<Var("x"), Var("x"), Var("y")>>),
     Ordered(<<BadExpr, Var("x"), Var("y")>>),
     Ordered(<<Var("x"), Var("y"), Wild, Var("z")>>),
     Ordered(<<Var("x"), Var("y"), Wild, Var("x")>>),
     Ordered(<<Var("x"), Var("y"), Var("z"), Lit(1), Wild>>),
     Ordered(<<TagP("m0", Var("x")), Var("y")>>),
     Ordered(<<TagP("m1", Ordered(<<Var("x"), Var("y")>>)), Var("x")>>),
     Ordered(<<TagP("m1", Ordered(<<Var("x"), Lit(1)>>)), Var("y")>>),
     Ordered(<<Tag("m1"), Lit(0)>>),
     Ordered(<<TagP("m1", Ordered(<<Var("x"), BadExpr>>)), Var("x")>>)}

NamedSyntax ==
    {Named(<<<<"a", Lit(7)>>, <<"b", Lit(11)>>>>),
     Named(<<<<"a", Lit(7)>>, <<"b", Lit(10)>>>>),
     Named(<<<<"a", Var("x")>>, <<"b", Var("y")>>>>),
     Named(<<<<"b", Var("x")>>, <<"a", Var("y")>>>>),
     Named(<<<<"a", Lit(1)>>, <<"b", Var("x")>>>>),
     Named(<<<<"b", Var("x")>>, <<"a", Lit(1)>>>>),
     Named(<<<<"a", Var("x")>>, <<"a", Var("y")>>>>),
     Named(<<<<"a", Var("x")>>, <<"b", Var("x")>>>>),
     Named(<<<<"zz", Var("x")>>, <<"a", Var("y")>>>>),
     Named(<<<<"", Var("x")>>, <<"a", Var("x")>>>>),
     Named(<<<<"a", BadExpr>>, <<"b", Var("x")>>>>),
     Named(<<<<"a", TagP("m0", Var("x"))>>, <<"b", Lit(1)>>>>),
     Named(<<<<"b", Var("x")>>, <<"a", TagP("m1", Ordered(<<Var("x"), Wild>>))>>>>)}

SyntaxSet == LeafSyntax \cup TaggedSyntax \cup OrderedSyntax \cup NamedSyntax

-----------------------------------------------------------------------------
(* Pattern tree nodes.                                                     *)

InvalidPattern(child) == [kind |-> "Invalid", syntax |-> Null, child |-> child]

WildcardPattern == [kind |-> "Wildcard", syntax |-> Null]

ConstantPattern(expr) == [kind |-> "Constant", syntax |-> Null, expr |-> expr]

VariablePattern(var) == [kind |-> "Variable", syntax |-> Null, variable |-> var]

TaggedPattern(member, valuePattern) ==
    [kind |-> "Tagged", syntax |-> Null, member |-> member, valuePattern |-> valuePattern]

StructurePattern(patterns) == [kind |-> "Structure", syntax |-> Null, patterns |-> patterns]

FieldPattern(field, p) == [field |-> field, pattern |-> p]

Pattern_bad(p) == p.kind = "Invalid"

badPattern(child) == InvalidPattern(child)

-----------------------------------------------------------------------------
(* The binder.  `st` is what a bind reads and writes besides its result:   *)
(* the VarMap, the arena of pattern variable symbols, the context's chain  *)
(* of temporaries (firstTempVar and each symbol's nextTemp) and the        *)
(* diagnostics issued to the context.                                      *)

Diag(code, range, name, note) == [code |-> code, range |-> range, name |-> name, note |-> note]

addDiag(st, d) == [st EXCEPT !.diags = Append(@, d)]

Bound(p, st) == [pattern |-> p, st |-> st]

\* Expression::bindRValue followed by BindContext::eval: the expression
\* bound to the target type, with the constant it folds to (if any).
bindRValue(t, e) ==
    IF e.ok /\ isIntegral(t)
    THEN [bad |-> FALSE,
          constant |-> IF e.const THEN <<SVInt(getBitWidth(t), e.n)>> ELSE Null]
    ELSE [bad |-> TRUE, constant |-> Null]

WildcardPattern_fromSyntax(syn, st) == Bound(WildcardPattern, st)

\* ConstantPattern::fromSyntax without the test that the expression folds.
ConstantPattern_fromSyntax_OnlyBad(syn, t, st) ==
    LET expr == bindRValue(t, syn.expr)
    IN  IF expr.bad
        THEN Bound(badPattern(Null), st)
        ELSE Bound(ConstantPattern(expr), st)

ConstantPattern_fromSyntax(syn, t, st) ==
    LET expr == bindRValue(t, syn.expr)
    IN  IF expr.bad \/ expr.constant = Null
        THEN Bound(badPattern(Null), st)
        ELSE Bound(ConstantPattern(expr), st)

\* VariablePattern::fromSyntax linking the symbol into the chain of
\* temporaries before it looks the name up.
VariablePattern_fromSyntax_LinkFirst(syn, path, t, st) ==
    LET var == Len(st.syms) + 1
        name == syn.variableName
        sym == [name |-> name, location |-> path, type |-> t, nextTemp |-> 0]
        st1 == [st EXCEPT !.syms = Append(@, sym)]
        st2 == [st1 EXCEPT !.syms[var].nextTemp = st.firstTempVar, !.firstTempVar = var]
    IN  IF name # ""
        THEN IF name \in DOMAIN st.varMap
             THEN Bound(badPattern(Null),
                        addDiag(st2, Diag("Redefinition", path, name,
                                          <<st.syms[st.varMap[name]].location>>)))
             ELSE Bound(VariablePattern(var), [st2 EXCEPT !.varMap = (name :> var) @@ @])
        ELSE Bound(VariablePattern(var), st1)

\* VariablePattern::fromSyntax setting the symbol's link but not the head
\* of the chain.
VariablePattern_fromSyntax_NoHead(syn, path, t, st) ==
    LET var == Len(st.syms) + 1
        name == syn.variableName
        sym == [name |-> name, location |-> path, type |-> t, nextTemp |-> 0]
        st1 == [st EXCEPT !.syms = Append(@, sym)]
    IN  IF name # ""
        THEN IF name \in DOMAIN st.varMap
             THEN Bound(badPattern(Null),
                        addDiag(st1, Diag("Redefinition", path, name,
                                          <<st.syms[st.varMap[name]].location>>)))
             ELSE Bound(VariablePattern(var),
                        [st1 EXCEPT !.varMap = (name :> var) @@ @,
                                    !.syms[var].nextTemp = st.firstTempVar])
        ELSE Bound(VariablePattern(var), st1)

\* VariablePattern::fromSyntax setting the head of the chain without
\* keeping the old head as the symbol's link.
VariablePattern_fromSyntax_NoNext(syn, path, t, st) ==
    LET var == Len(st.syms) + 1
        name == syn.variableName
        sym == [name |-> name, location |-> path, type |-> t, nextTemp |-> 0]
        st1 == [st EXCEPT !.syms = Append(@, sym)]
    IN  IF name # ""
        THEN IF name \in DOMAIN st.varMap
             THEN Bound(badPattern(Null),
                        addDiag(st1, Diag("Redefinition", path, name,
                                          <<st.syms[st.varMap[name]].location>>)))
             ELSE Bound(VariablePattern(var),
                        [st1 EXCEPT !.varMap = (name :> var) @@ @,
                                    !.firstTempVar = var])
        ELSE Bound(VariablePattern(var), st1)

VariablePattern_fromSyntax(syn, path, t, st) ==
    LET var == Len(st.syms) + 1
        name == syn.variableName
        sym == [name |-> name, location |-> path, type |-> t, nextTemp |-> 0]
        st1 == [st EXCEPT !.syms = Append(@, sym)]
    IN  IF name # ""
        THEN IF name \in DOMAIN st.varMap
             THEN Bound(badPattern(Null),
                        addDiag(st1, Diag("Redefinition", path, name,
                                          <<st.syms[st.varMap[name]].location>>)))
             ELSE Bound(VariablePattern(var),
                        [st1 EXCEPT !.varMap = (name :> var) @@ @,
                                    !.syms[var].nextTemp = st.firstTempVar,
                                    !.firstTempVar = var])
        ELSE Bound(VariablePattern(var), st1)

RECURSIVE Pattern_bind(_, _, _, _)
RECURSIVE TaggedPattern_fromSyntax(_, _, _, _)
RECURSIVE StructurePattern_fromSyntax(_, _, _, _)
RECURSIVE OrderedMembers(_, _, _, _, _, _)
RECURSIVE NamedMembers(_, _, _, _, _)

\* Pattern::bind recording, for a parenthesized pattern too, the syntax it
\* was called with.
Pattern_bind_ParenSyntax(syn, path, t, st) ==
    LET r == CASE syn.kind = "ParenthesizedPattern" ->
                      Pattern_bind(syn.pattern[1], path \o <<1>>, t, st)
               [] syn.kind = "WildcardPattern" -> WildcardPattern_fromSyntax(syn, st)
               [] syn.kind = "ExpressionPattern" -> ConstantPattern_fromSyntax(syn, t, st)
               [] syn.kind = "VariablePattern" ->
                      VariablePattern_fromSyntax(syn, path, t, st)
               [] syn.kind = "TaggedPattern" ->
                      TaggedPattern_fromSyntax(syn, path, t, st)
               [] syn.kind = "StructurePattern" ->
                      StructurePattern_fromSyntax(syn, path, t, st)
    IN  Bound([r.pattern EXCEPT !.syntax = <<path>>], r.st)

Pattern_bind(syn, path, t, st) ==
    IF syn.kind = "ParenthesizedPattern"
    THEN Pattern_bind(syn.pattern[1], path \o <<1>>, t, st)
    ELSE LET r == CASE syn.kind = "WildcardPattern" -> WildcardPattern_fromSyntax(syn, st)
                    [] syn.kind = "ExpressionPattern" -> ConstantPattern_fromSyntax(syn, t, st)
                    [] syn.kind = "VariablePattern" ->
                           VariablePattern_fromSyntax(syn, path, t, st)
                    [] syn.kind = "TaggedPattern" ->
                           TaggedPattern_fromSyntax(syn, path, t, st)
                    [] syn.kind = "StructurePattern" ->
                           StructurePattern_fromSyntax(syn, path, t, st)
         IN  Bound([r.pattern EXCEPT !.syntax = <<path>>], r.st)

\* TaggedPattern::fromSyntax taking back, when the nested pattern is bad,
\* the table entries and the temporaries its bind added.
TaggedPattern_fromSyntax_Rollback(syn, path, t, st) ==
    IF ~isTaggedUnion(t)
    THEN Bound(badPattern(Null),
               IF ~isError(t) THEN addDiag(st, Diag("PatternTaggedType", path, "", Null))
               ELSE st)
    ELSE LET memberName == syn.memberName
             member == Scope_find(t, memberName)
         IN  IF member = 0
             THEN Bound(badPattern(Null),
                        IF memberName # ""
                        THEN addDiag(st, Diag("UnknownMember", path, memberName, Null))
                        ELSE st)
             ELSE LET field == t.fields[member]
                      b == Pattern_bind(syn.pattern[1], path \o <<1>>, field.type, st)
                      val == IF syn.pattern # Null THEN <<b.pattern>> ELSE Null
                      st1 == IF syn.pattern # Null THEN b.st ELSE st
                      res == TaggedPattern(field, val)
                  IN  IF val # Null /\ Pattern_bad(val[1])
                      THEN Bound(badPattern(<<res>>),
                                 [st1 EXCEPT !.varMap = st.varMap,
                                             !.firstTempVar = st.firstTempVar])
                      ELSE Bound(res, st1)

\* TaggedPattern::fromSyntax giving up the node it built when the nested
\* pattern is bad.
TaggedPattern_fromSyntax_DropsNode(syn, path, t, st) ==
    IF ~isTaggedUnion(t)
    THEN Bound(badPattern(Null),
               IF ~isError(t) THEN addDiag(st, Diag("PatternTaggedType", path, "", Null))
               ELSE st)
    ELSE LET memberName == syn.memberName
             member == Scope_find(t, memberName)
         IN  IF member = 0
             THEN Bound(badPattern(Null),
                        IF memberName # ""
                        THEN addDiag(st, Diag("UnknownMember", path, memberName, Null))
                        ELSE st)
             ELSE LET field == t.fields[member]
                      b == Pattern_bind(syn.pattern[1], path \o <<1>>, field.type, st)
                      val == IF syn.pattern # Null THEN <<b.pattern>> ELSE Null
                      st1 == IF syn.pattern # Null THEN b.st ELSE st
                      res == TaggedPattern(field, val)
                  IN  IF val # Null /\ Pattern_bad(val[1])
                      THEN Bound(badPattern(Null), st1)
                      ELSE Bound(res, st1)

TaggedPattern_fromSyntax(syn, path, t, st) ==
    IF ~isTaggedUnion(t)
    THEN Bound(badPattern(Null),
               IF ~isError(t) THEN addDiag(st, Diag("PatternTaggedType", path, "", Null))
               ELSE st)
    ELSE LET memberName == syn.memberName
             member == Scope_find(t, memberName)
         IN  IF member = 0
             THEN Bound(badPattern(Null),
                        IF memberName # ""
                        THEN addDiag(st, Diag("UnknownMember", path, memberName, Null))
                        ELSE st)
             ELSE LET field == t.fields[member]
                      b == Pattern_bind(syn.pattern[1], path \o <<1>>, field.type, st)
                      val == IF syn.pattern # Null THEN <<b.pattern>> ELSE Null
                      st1 == IF syn.pattern # Null THEN b.st ELSE st
                      res == TaggedPattern(field, val)
                  IN  IF val # Null /\ Pattern_bad(val[1])
                      THEN Bound(badPattern(<<res>>), st1)
                      ELSE Bound(res, st1)

\* The positional loop without the break after PatternStructTooMany.
OrderedMembers_NoBreak(syn, path, t, i, it, acc) ==
    LET fields == t.fields
    IN  IF i > Len(syn.members) THEN [acc EXCEPT !.it = it]
        ELSE IF it > Len(fields)
        THEN OrderedMembers(syn, path, t, i + 1, it,
                            [acc EXCEPT !.bad = TRUE,
                                        !.st = addDiag(@, Diag("PatternStructTooMany", path \o <<i>>,
                                                               "", Null))])
        ELSE LET b == Pattern_bind(syn.members[i].pattern[1], path \o <<i, 1>>,
                                   fields[it].type, acc.st)
             IN  OrderedMembers(syn, path, t, i + 1, it + 1,
                                [acc EXCEPT !.bad = @ \/ Pattern_bad(b.pattern),
                                            !.patterns = Append(@, FieldPattern(fields[it], b.pattern)),
                                            !.st = b.st])

\* The positional loop leaving at the first sub-pattern that is bad.
OrderedMembers_StopAtBad(syn, path, t, i, it, acc) ==
    LET fields == t.fields
    IN  IF i > Len(syn.members) THEN [acc EXCEPT !.it = it]
        ELSE IF it > Len(fields)
        THEN [acc EXCEPT !.bad = TRUE, !.it = it,
                         !.st = addDiag(@, Diag("PatternStructTooMany", path \o <<i>>, "", Null))]
        ELSE LET b == Pattern_bind(syn.members[i].pattern[1], path \o <<i, 1>>,
                                   fields[it].type, acc.st)
                 acc1 == [acc EXCEPT !.bad = @ \/ Pattern_bad(b.pattern),
                                     !.patterns = Append(@, FieldPattern(fields[it], b.pattern)),
                                     !.st = b.st]
             IN  IF Pattern_bad(b.pattern) THEN [acc1 EXCEPT !.it = Len(fields) + 1]
                 ELSE OrderedMembers(syn, path, t, i + 1, it + 1, acc1)

\* The positional loop leaving the bad flag as it is when the pattern of a
\* member is bad.
OrderedMembers_ForgetsBad(syn, path, t, i, it, acc) ==
    LET fields == t.fields
    IN  IF i > Len(syn.members) THEN [acc EXCEPT !.it = it]
        ELSE IF it > Len(fields)
        THEN [acc EXCEPT !.bad = TRUE, !.it = it,
                         !.st = addDiag(@, Diag("PatternStructTooMany", path \o <<i>>, "", Null))]
        ELSE LET b == Pattern_bind(syn.members[i].pattern[1], path \o <<i, 1>>,
                                   fields[it].type, acc.st)
             IN  OrderedMembers(syn, path, t, i + 1, it + 1,
                                [acc EXCEPT !.patterns = Append(@, FieldPattern(fields[it], b.pattern)),
                                            !.st = b.st])

\* The loop over the members of the positional form.  `it` is the position
\* of the field iterator (1-based; Len(fields) + 1 is fields.end()), `acc`
\* holds the bad flag, the pairs appended so far and the bind state.  The
\* result also carries `it` as the loop leaves it.
OrderedMembers(syn, path, t, i, it, acc) ==
    LET fields == t.fields
    IN  IF i > Len(syn.members) THEN [acc EXCEPT !.it = it]
        ELSE IF it > Len(fields)
        THEN [acc EXCEPT !.bad = TRUE, !.it = it,
                         !.st = addDiag(@, Diag("PatternStructTooMany", path \o <<i>>, "", Null))]
        ELSE LET b == Pattern_bind(syn.members[i].pattern[1], path \o <<i, 1>>,
                                   fields[it].type, acc.st)
             IN  OrderedMembers(syn, path, t, i + 1, it + 1,
                                [acc EXCEPT !.bad = @ \/ Pattern_bad(b.pattern),
                                            !.patterns = Append(@, FieldPattern(fields[it], b.pattern)),
                                            !.st = b.st])

\* The named loop setting the bad flag only where it issues UnknownMember.
NamedMembers_EmptyNotBad(syn, path, t, i, acc) ==
    IF i > Len(syn.members) THEN acc
    ELSE LET memberName == syn.members[i].name
             member == Scope_find(t, memberName)
         IN  IF member = 0
             THEN NamedMembers(syn, path, t, i + 1,
                               IF memberName # ""
                               THEN [acc EXCEPT !.bad = TRUE,
                                                !.st = addDiag(@, Diag("UnknownMember", path \o <<i>>,
                                                                       memberName, Null))]
                               ELSE acc)
             ELSE LET field == t.fields[member]
                      b == Pattern_bind(syn.members[i].pattern[1], path \o <<i, 1>>,
                                        field.type, acc.st)
                  IN  NamedMembers(syn, path, t, i + 1,
                                   [acc EXCEPT !.bad = @ \/ Pattern_bad(b.pattern),
                                               !.patterns = Append(@, FieldPattern(field, b.pattern)),
                                               !.st = b.st])

\* The loop over the members of the named form.
NamedMembers(syn, path, t, i, acc) ==
    IF i > Len(syn.members) THEN acc
    ELSE LET memberName == syn.members[i].name
             member == Scope_find(t, memberName)
         IN  IF member = 0
             THEN NamedMembers(syn, path, t, i + 1,
                               [acc EXCEPT !.bad = TRUE,
                                           !.st = IF memberName # ""
                                                  THEN addDiag(@, Diag("UnknownMember", path \o <<i>>,
                                                                       memberName, Null))
                                                  ELSE @])
             ELSE LET field == t.fields[member]
                      b == Pattern_bind(syn.members[i].pattern[1], path \o <<i, 1>>,
                                        field.type, acc.st)
                  IN  NamedMembers(syn, path, t, i + 1,
                                   [acc EXCEPT !.bad = @ \/ Pattern_bad(b.pattern),
                                               !.patterns = Append(@, FieldPattern(field, b.pattern)),
                                               !.st = b.st])

\* StructurePattern::fromSyntax returning the Structure node as it is,
\* whatever its bad flag.
StructurePattern_fromSyntax_NoWrap(syn, path, t, st) ==
    IF ~isStruct(t) \/ Len(syn.members) = 0
    THEN Bound(badPattern(Null),
               IF ~isError(t) /\ Len(syn.members) # 0
               THEN addDiag(st, Diag("PatternStructType", path, "", Null))
               ELSE st)
    ELSE LET acc0 == [bad |-> FALSE, patterns |-> <<>>, st |-> st, it |-> 1]
             acc == IF syn.members[1].kind = "OrderedStructurePatternMember"
                    THEN LET a == OrderedMembers(syn, path, t, 1, 1, acc0)
                         IN  IF a.it <= Len(t.fields)
                             THEN [a EXCEPT !.bad = TRUE,
                                            !.st = addDiag(@, Diag("PatternStructTooFew", path, "", Null))]
                             ELSE a
                    ELSE NamedMembers(syn, path, t, 1, acc0)
         IN  Bound(StructurePattern(acc.patterns), acc.st)

\* StructurePattern::fromSyntax reporting PatternStructType on the error
\* type as on any other type that is no struct.
StructurePattern_fromSyntax_NoSuppress(syn, path, t, st) ==
    IF ~isStruct(t) \/ Len(syn.members) = 0
    THEN Bound(badPattern(Null),
               IF Len(syn.members) # 0
               THEN addDiag(st, Diag("PatternStructType", path, "", Null))
               ELSE st)
    ELSE LET acc0 == [bad |-> FALSE, patterns |-> <<>>, st |-> st, it |-> 1]
             acc == IF syn.members[1].kind = "OrderedStructurePatternMember"
                    THEN LET a == OrderedMembers(syn, path, t, 1, 1, acc0)
                         IN  IF a.it <= Len(t.fields)
                             THEN [a EXCEPT !.bad = TRUE,
                                            !.st = addDiag(@, Diag("PatternStructTooFew", path, "", Null))]
                             ELSE a
                    ELSE NamedMembers(syn, path, t, 1, acc0)
             res == StructurePattern(acc.patterns)
         IN  IF acc.bad THEN Bound(badPattern(<<res>>), acc.st)
             ELSE Bound(res, acc.st)

StructurePattern_fromSyntax(syn, path, t, st) ==
    IF ~isStruct(t) \/ Len(syn.members) = 0
    THEN Bound(badPattern(Null),
               IF ~isError(t) /\ Len(syn.members) # 0
               THEN addDiag(st, Diag("PatternStructType", path, "", Null))
               ELSE st)
    ELSE LET acc0 == [bad |-> FALSE, patterns |-> <<>>, st |-> st, it |-> 1]
             acc == IF syn.members[1].kind = "OrderedStructurePatternMember"
                    THEN LET a == OrderedMembers(syn, path, t, 1, 1, acc0)
                         IN  IF a.it <= Len(t.fields)
                             THEN [a EXCEPT !.bad = TRUE,
                                            !.st = addDiag(@, Diag("PatternStructTooFew", path, "", Null))]
                             ELSE a
                    ELSE NamedMembers(syn, path, t, 1, acc0)
             res == StructurePattern(acc.patterns)
         IN  IF acc.bad THEN Bound(badPattern(<<res>>), acc.st)
             ELSE Bound(res, acc.st)

-----------------------------------------------------------------------------
(* The evaluator.  `context` is the EvalContext: `locals` maps a symbol to *)
(* the value of its local, `created` lists the createLocal calls in call   *)
(* order and `visited` lists the visits the visitor has completed, in      *)
(* order of completion: the syntax of the node, the value it was given and *)
(* the value it returned.                                                  *)

Evaluated(cv, context) == [cv |-> cv, context |-> context]

\* EvalContext::createLocal
createLocal(context, symbol, v) ==
    [context EXCEPT !.locals = (symbol :> v) @@ @,
                    !.created = Append(@, <<symbol, v>>)]

\* WildcardPattern::evalImpl answering with the truth of the value.
WildcardPattern_evalImpl_ValueTruth(p, context, v) ==
    Evaluated(SVInt(1, IF isTrue(v) THEN 1 ELSE 0), context)

WildcardPattern_evalImpl(p, context, v) == Evaluated(SVInt(1, 1), context)

\* What a failed ASSERT leaves the caller with: no value at all.
AssertionFailure == [k |-> "assert"]

ConstantPattern_evalImpl(p, context, v) ==
    IF p.expr.constant = Null THEN Evaluated(AssertionFailure, context)
    ELSE Evaluated(SVInt(1, IF p.expr.constant[1] = v THEN 1 ELSE 0), context)

\* VariablePattern::evalImpl refusing a symbol that already has a local.
VariablePattern_evalImpl_OnlyOnce(p, context, v) ==
    IF p.variable \in DOMAIN context.locals THEN Evaluated(SVInt(1, 0), context)
    ELSE Evaluated(SVInt(1, 1), createLocal(context, p.variable, v))

VariablePattern_evalImpl(p, context, v) ==
    Evaluated(SVInt(1, 1), createLocal(context, p.variable, v))

RECURSIVE EvalVisitor_visit(_, _, _)
RECURSIVE TaggedPattern_evalImpl(_, _, _)
RECURSIVE StructurePattern_evalImpl(_, _, _)
RECURSIVE UnpackedFields(_, _, _, _)
RECURSIVE PackedFields(_, _, _, _)

Pattern_eval(p, context, v) == EvalVisitor_visit(p, context, v)

\* The visitor descending into the child of an invalid node.
EvalVisitor_visit_IntoChild(p, context, v) ==
    LET r == IF Pattern_bad(p)
             THEN IF p.child # Null
                  THEN [Pattern_eval(p.child[1], context, v) EXCEPT !.cv = BadValue]
                  ELSE Evaluated(BadValue, context)
             ELSE CASE p.kind = "Wildcard" -> WildcardPattern_evalImpl(p, context, v)
                    [] p.kind = "Constant" -> ConstantPattern_evalImpl(p, context, v)
                    [] p.kind = "Variable" -> VariablePattern_evalImpl(p, context, v)
                    [] p.kind = "Tagged" -> TaggedPattern_evalImpl(p, context, v)
                    [] p.kind = "Structure" -> StructurePattern_evalImpl(p, context, v)
    IN  Evaluated(r.cv, [r.context EXCEPT !.visited =
                            Append(@, [syntax |-> p.syntax, value |-> v, cv |-> r.cv])])

Visit(p, v, cv) == [syntax |-> p.syntax, value |-> v, cv |-> cv]

EvalVisitor_visit(p, context, v) ==
    LET r == IF Pattern_bad(p) THEN Evaluated(BadValue, context)
             ELSE CASE p.kind = "Wildcard" -> WildcardPattern_evalImpl(p, context, v)
                    [] p.kind = "Constant" -> ConstantPattern_evalImpl(p, context, v)
                    [] p.kind = "Variable" -> VariablePattern_evalImpl(p, context, v)
                    [] p.kind = "Tagged" -> TaggedPattern_evalImpl(p, context, v)
                    [] p.kind = "Structure" -> StructurePattern_evalImpl(p, context, v)
    IN  Evaluated(r.cv, [r.context EXCEPT !.visited = Append(@, Visit(p, v, r.cv))])

\* TaggedPattern::evalImpl handing back the payload of the union when the
\* member matches and there is no nested pattern.
TaggedPattern_evalImpl_ReturnsPayload(p, context, v) ==
    IF bad(v) THEN Evaluated(BadValue, context)
    ELSE IF v.activeMember # p.member.offset THEN Evaluated(SVInt(1, 0), context)
    ELSE IF p.valuePattern # Null THEN Pattern_eval(p.valuePattern[1], context, v.value[1])
    ELSE Evaluated(v.value[1], context)

\* TaggedPattern::evalImpl answering "no match" for a bad value.
TaggedPattern_evalImpl_BadIsFalse(p, context, v) ==
    IF bad(v) THEN Evaluated(SVInt(1, 0), context)
    ELSE IF v.activeMember # p.member.offset THEN Evaluated(SVInt(1, 0), context)
    ELSE IF p.valuePattern # Null THEN Pattern_eval(p.valuePattern[1], context, v.value[1])
    ELSE Evaluated(SVInt(1, 1), context)

\* TaggedPattern::evalImpl evaluating the nested pattern before it looks
\* at the active member.
TaggedPattern_evalImpl_NestedFirst(p, context, v) ==
    IF bad(v) THEN Evaluated(BadValue, context)
    ELSE LET r == IF p.valuePattern # Null
                  THEN Pattern_eval(p.valuePattern[1], context, v.value[1])
                  ELSE Evaluated(SVInt(1, 1), context)
         IN  IF v.activeMember # p.member.offset THEN Evaluated(SVInt(1, 0), r.context)
             ELSE r

\* TaggedPattern::evalImpl reducing the result of the nested pattern to
\* whether it is true.
TaggedPattern_evalImpl_BoolOfNested(p, context, v) ==
    IF bad(v) THEN Evaluated(BadValue, context)
    ELSE IF v.activeMember # p.member.offset THEN Evaluated(SVInt(1, 0), context)
    ELSE IF p.valuePattern # Null
         THEN LET r == Pattern_eval(p.valuePattern[1], context, v.value[1])
              IN  Evaluated(SVInt(1, IF isTrue(r.cv) THEN 1 ELSE 0), r.context)
    ELSE Evaluated(SVInt(1, 1), context)

TaggedPattern_evalImpl(p, context, v) ==
    IF bad(v) THEN Evaluated(BadValue, context)
    ELSE IF v.activeMember # p.member.offset THEN Evaluated(SVInt(1, 0), context)
    ELSE IF p.valuePattern # Null THEN Pattern_eval(p.valuePattern[1], context, v.value[1])
    ELSE Evaluated(SVInt(1, 1), context)

\* The loop over the elements without the return on a result that is not true.
UnpackedFields_NoReturn(patterns, i, context, elems) ==
    IF i > Len(patterns) THEN Evaluated(SVInt(1, 1), context)
    ELSE LET fp == patterns[i]
             r == Pattern_eval(fp.pattern, context, elems[fp.field.offset + 1])
         IN  UnpackedFields(patterns, i + 1, r.context, elems)

\* The loop over the elements undoing the locals of the pairs evaluated
\* when it returns a result that is not true.
UnpackedFields_Rollback(patterns, i, context, elems) ==
    IF i > Len(patterns) THEN Evaluated(SVInt(1, 1), context)
    ELSE LET fp == patterns[i]
             r == Pattern_eval(fp.pattern, context, elems[fp.field.offset + 1])
             u == UnpackedFields(patterns, i + 1, r.context, elems)
         IN  IF ~isTrue(r.cv) THEN r
             ELSE IF ~isTrue(u.cv) THEN [u EXCEPT !.context.locals = context.locals]
             ELSE u

\* The loop over the elements taking the element at the position of the
\* pair in the list.
UnpackedFields_ByPosition(patterns, i, context, elems) ==
    IF i > Len(patterns) THEN Evaluated(SVInt(1, 1), context)
    ELSE LET fp == patterns[i]
             r == Pattern_eval(fp.pattern, context, elems[i])
         IN  IF ~isTrue(r.cv) THEN r
             ELSE UnpackedFields(patterns, i + 1, r.context, elems)

\* The loop over the pairs for a value held as a list of elements.
UnpackedFields(patterns, i, context, elems) ==
    IF i > Len(patterns) THEN Evaluated(SVInt(1, 1), context)
    ELSE LET fp == patterns[i]
             r == Pattern_eval(fp.pattern, context, elems[fp.field.offset + 1])
         IN  IF ~isTrue(r.cv) THEN r
             ELSE UnpackedFields(patterns, i + 1, r.context, elems)

\* The loop over the bit ranges with the upper bound one bit too high.
PackedFields_OffByOne(patterns, i, context, cvi) ==
    IF i > Len(patterns) THEN Evaluated(SVInt(1, 1), context)
    ELSE LET fp == patterns[i]
             io == fp.field.offset
             width == getBitWidth(fp.field.type)
             r == Pattern_eval(fp.pattern, context, slice(cvi, width + io, io))
         IN  IF ~isTrue(r.cv) THEN r
             ELSE PackedFields(patterns, i + 1, r.context, cvi)

\* The loop over the pairs for a value held as one integer.
PackedFields(patterns, i, context, cvi) ==
    IF i > Len(patterns) THEN Evaluated(SVInt(1, 1), context)
    ELSE LET fp == patterns[i]
             io == fp.field.offset
             width == getBitWidth(fp.field.type)
             r == Pattern_eval(fp.pattern, context, slice(cvi, width + io - 1, io))
         IN  IF ~isTrue(r.cv) THEN r
             ELSE PackedFields(patterns, i + 1, r.context, cvi)

StructurePattern_evalImpl(p, context, v) ==
    IF bad(v) THEN Evaluated(BadValue, context)
    ELSE IF isUnpacked(v) THEN UnpackedFields(p.patterns, 1, context, v.elems)
    ELSE PackedFields(p.patterns, 1, context, v)

-----------------------------------------------------------------------------
(* The state machine: one pattern is bound with a fresh VarMap and bind    *)
(* context, then evaluated against values of the target type on one        *)
(* evaluation context.                                                     *)

\* The evaluations that may run at the same time on the bound pattern.
Threads == {"t1", "t2"}

\* An evaluation not yet begun: the value it is given, its call stack, the
\* value the callee last returned, the locals of its own EvalContext,
\* whether another evaluation was under way when it began, the nodes it has
\* called Pattern::eval on, and whether it has called it on one of them
\* again.
IdleThread ==
    [status |-> "idle", value |-> Null, stack |-> <<>>, ret |-> Null,
     locals |-> <<>>, created |-> <<>>, overlap |-> FALSE,
     visits |-> {}, again |-> FALSE]

NoBindState == [varMap |-> <<>>, syms |-> <<>>, firstTempVar |-> 0, diags |-> <<>>]

Init ==
    /\ pc = "unbound"
    /\ syntax = Null
    /\ targetType = Null
    /\ pattern = Null
    /\ varMap = NoBindState.varMap
    /\ syms = NoBindState.syms
    /\ firstTempVar = NoBindState.firstTempVar
    /\ diags = NoBindState.diags
    /\ value = Null
    /\ result = Null
    /\ locals = <<>>
    /\ created = <<>>
    /\ visited = <<>>
    /\ nevals = 0
    /\ threads = [t \in Threads |-> IdleThread]

\* Pattern::bind(syn, t, varMap, context) on a fresh VarMap and context.
Bind(syn, t) ==
    /\ pc = "unbound"
    /\ LET b == Pattern_bind(syn, <<>>, t, NoBindState)
       IN  /\ pattern' = <<b.pattern>>
           /\ varMap' = b.st.varMap
           /\ syms' = b.st.syms
           /\ firstTempVar' = b.st.firstTempVar
           /\ diags' = b.st.diags
    /\ syntax' = <<syn>>
    /\ targetType' = <<t>>
    /\ pc' = "bound"
    /\ UNCHANGED <<value, result, locals, created, visited, nevals, threads>>

\* pattern.eval(context, v) on the bound pattern; `created` and `visited`
\* record this call only, `locals` is the context's and persists.
Eval(v) ==
    /\ pc = "bound"
    /\ nevals < MaxEvals
    /\ LET r == Pattern_eval(pattern[1], [locals |-> locals, created |-> <<>>, visited |-> <<>>], v)
       IN  /\ result' = <<r.cv>>
           /\ locals' = r.context.locals
           /\ created' = r.context.created
           /\ visited' = r.context.visited
    /\ value' = <<v>>
    /\ nevals' = nevals + 1
    /\ UNCHANGED <<pc, syntax, targetType, pattern, varMap, syms, firstTempVar, diags, threads>>

Next ==
    \/ \E syn \in SyntaxSet, t \in TypeSet : Bind(syn, t)
    \/ pc = "bound" /\ \E v \in InputValues(targetType[1]) : Eval(v)

Spec == Init /\ [][Next]_vars

TypeOK ==
    /\ pc \in {"unbound", "bound"}
    /\ nevals \in 0..MaxEvals
    /\ Len(pattern) <= 1
    /\ Len(result) <= 1

-----------------------------------------------------------------------------
(* Vocabulary of the properties.                                           *)

True1 == SVInt(1, 1)

False1 == SVInt(1, 0)

RECURSIVE Nodes(_)
\* The nodes of the tree under p, p included, through child, valuePattern
\* and patterns.
Nodes(p) ==
    {p} \cup
    (CASE p.kind = "Invalid" -> IF p.child = Null THEN {} ELSE Nodes(p.child[1])
       [] p.kind = "Tagged" -> IF p.valuePattern = Null THEN {} ELSE Nodes(p.valuePattern[1])
       [] p.kind = "Structure" -> UNION {Nodes(p.patterns[i].pattern) : i \in 1..Len(p.patterns)}
       [] OTHER -> {})

\* The nodes strictly under p.
Below(p) == Nodes(p) \ {p}

Top == pattern[1]

Evaluated1 == pc = "bound" /\ nevals > 0

\* The node a completed visit was made to.
VNode(e) == CHOOSE n \in Nodes(Top) : n.syntax = e.syntax

WasVisited(syn) == \E i \in DOMAIN visited : visited[i].syntax = syn

VisitIndex(syn) == CHOOSE i \in DOMAIN visited : visited[i].syntax = syn

Captured(var) == \E c \in DOMAIN created : created[c][1] = var

\* Nothing of the tree under p, p included, was evaluated.
Untouched(p) ==
    \A m \in Nodes(p) : /\ ~WasVisited(m.syntax)
                        /\ m.kind = "Variable" => ~Captured(m.variable)

-----------------------------------------------------------------------------
\* C1 as stated: whatever the kind of the bound pattern, evaluating it
\* against the poisoned value returns the poisoned value.
C1_PoisonEveryKind ==
    (Evaluated1 /\ value = <<BadValue>>) => result = <<BadValue>>

\* C1, amended: every visit that is handed the poisoned value returns the
\* poisoned value when the node is Tagged, Structure or Invalid; it returns
\* 1-bit true when the node is Wildcard or Variable and 1-bit false when it
\* is Constant.  The result of the eval is the result of the visit to the top.
C1_PoisonByKind ==
    Evaluated1 =>
        /\ \A i \in DOMAIN visited :
              LET e == visited[i]
                  k == VNode(e).kind
              IN  bad(e.value) =>
                    /\ k \in {"Tagged", "Structure", "Invalid"} => e.cv = BadValue
                    /\ k \in {"Wildcard", "Variable"} => e.cv = True1
                    /\ k = "Constant" => e.cv = False1
        /\ visited[Len(visited)].syntax = Top.syntax
        /\ result = <<visited[Len(visited)].cv>>
        /\ value = <<visited[Len(visited)].value>>

C1_Witness ==
    /\ Evaluated1
    /\ value = <<BadValue>>
    /\ Top.kind = "Tagged"
    /\ result = <<BadValue>>

\* C2: a visit to a Tagged node with a union value whose active member is
\* not the node's member returns 1-bit false, and nothing under the node is
\* evaluated or captured; at the top, no local is created at all.
C2_TaggedMismatch ==
    Evaluated1 =>
        \A i \in DOMAIN visited :
            LET e == visited[i]
                n == VNode(e)
            IN  (n.kind = "Tagged" /\ ~bad(e.value) /\ e.value.activeMember # n.member.offset) =>
                    /\ e.cv = False1
                    /\ \A m \in Below(n) : Untouched(m)
                    /\ n = Top => created = <<>> /\ Len(visited) = 1

C2_Witness ==
    /\ Evaluated1
    /\ Top.kind = "Tagged"
    /\ \E m \in Below(Top) : m.kind = "Variable"
    /\ ~bad(value[1])
    /\ value[1].activeMember # Top.member.offset
    /\ result = <<False1>>

\* C3: a visit to a Structure node with a value that is not poisoned
\* evaluates a prefix of the pair list, in list order; every pair of the
\* prefix but the last returned true; the visit returns true when the whole
\* list was evaluated and its last pair returned true, and otherwise the
\* result of the last pair evaluated, which is not true; nothing of the
\* later pairs is evaluated or captured.  The locals created are those of
\* the Variable nodes visited, in visit order.
VariableVisits == SelectSeq(visited, LAMBDA e : VNode(e).kind = "Variable")

C3_StructureShortCircuit ==
    Evaluated1 =>
        /\ \A i \in DOMAIN visited :
              LET e == visited[i]
                  n == VNode(e)
              IN  (n.kind = "Structure" /\ ~bad(e.value)) =>
                    LET ps == n.patterns
                        done == {j \in 1..Len(ps) : WasVisited(ps[j].pattern.syntax)}
                        k == Cardinality(done)
                        at(j) == VisitIndex(ps[j].pattern.syntax)
                    IN  /\ done = 1..k
                        /\ k >= 1
                        /\ \A j \in 1..(k - 1) : isTrue(visited[at(j)].cv) /\ at(j) < at(j + 1)
                        /\ at(k) < i
                        /\ e.cv = IF k = Len(ps) /\ isTrue(visited[at(k)].cv)
                                  THEN True1 ELSE visited[at(k)].cv
                        /\ k < Len(ps) => ~isTrue(visited[at(k)].cv)
                        /\ \A j \in (k + 1)..Len(ps) : Untouched(ps[j].pattern)
        /\ Len(created) = Len(VariableVisits)
        /\ \A c \in DOMAIN created :
              created[c] = <<VNode(VariableVisits[c]).variable, VariableVisits[c].value>>

C3_Witness ==
    /\ Evaluated1
    /\ Top.kind = "Structure"
    /\ isUnpacked(value[1])
    /\ Len(Top.patterns) = 3
    /\ Top.patterns[3].pattern.kind = "Variable"
    /\ WasVisited(Top.patterns[1].pattern.syntax)
    /\ WasVisited(Top.patterns[2].pattern.syntax)
    /\ ~WasVisited(Top.patterns[3].pattern.syntax)
    /\ result = <<False1>>

\* C4: a visit to an Invalid node returns the poisoned value and nothing
\* under the node is evaluated or captured; an eval of an Invalid top node
\* creates no local, whatever the value.
C4_InvalidNotVisited ==
    Evaluated1 =>
        /\ \A i \in DOMAIN visited :
              LET e == visited[i]
                  n == VNode(e)
              IN  n.kind = "Invalid" => e.cv = BadValue /\ \A m \in Below(n) : Untouched(m)
        /\ Pattern_bad(Top) => result = <<BadValue>> /\ created = <<>> /\ Len(visited) = 1

C4_Witness ==
    /\ Evaluated1
    /\ Pattern_bad(Top)
    /\ Top.child # Null
    /\ \E m \in Below(Top) : m.kind = "Variable"
    /\ ~bad(value[1])
    /\ result = <<BadValue>>

-----------------------------------------------------------------------------
(* Vocabulary of the properties of the binder.                             *)

HasNode(path) == \E n \in Nodes(Top) : n.syntax = <<path>>

NodeAt(path) == CHOOSE n \in Nodes(Top) : n.syntax = <<path>>

RECURSIVE StripPath(_, _)
\* The path of the pattern syntax left when the parentheses around syn, a
\* syntax node at `path`, are taken off.
StripPath(syn, path) ==
    IF syn.kind = "ParenthesizedPattern" THEN StripPath(syn.pattern[1], path \o <<1>>)
    ELSE path

RECURSIVE Strip(_)
Strip(syn) == IF syn.kind = "ParenthesizedPattern" THEN Strip(syn.pattern[1]) ELSE syn

RECURSIVE ChainFrom(_, _)
\* The symbols on the chain of temporaries from `var` on, following at
\* most `fuel` links.
ChainFrom(var, fuel) ==
    IF var = 0 \/ fuel = 0 THEN <<>>
    ELSE <<var>> \o ChainFrom(syms[var].nextTemp, fuel - 1)

TempChain == ChainFrom(firstTempVar, Len(syms) + 1)

\* The symbol declared first under a name.
FirstOf(name) ==
    CHOOSE i \in DOMAIN syms : syms[i].name = name /\ \A h \in 1..(i - 1) : syms[h].name # name

\* The symbols whose name was declared before them.
Duplicates == {j \in DOMAIN syms : syms[j].name # "" /\ FirstOf(syms[j].name) # j}

DiagsAt(code, range) == {d \in DOMAIN diags : diags[d].code = code /\ diags[d].range = range}

\* The Structure or Tagged node the top-level bind built, whether it was
\* returned or wrapped.
Built == IF Pattern_bad(Top) /\ Top.child # Null THEN Top.child[1] ELSE Top

TopType == targetType[1]

TopSyntax == syntax[1]

PositionalTop ==
    /\ pc = "bound"
    /\ TopSyntax.kind = "StructurePattern"
    /\ isStruct(TopType)
    /\ Len(TopSyntax.members) >= 1
    /\ TopSyntax.members[1].kind = "OrderedStructurePatternMember"

NamedTop ==
    /\ pc = "bound"
    /\ TopSyntax.kind = "StructurePattern"
    /\ isStruct(TopType)
    /\ Len(TopSyntax.members) >= 1
    /\ TopSyntax.members[1].kind = "NamedStructurePatternMember"

TaggedTop ==
    /\ pc = "bound"
    /\ TopSyntax.kind = "TaggedPattern"
    /\ isTaggedUnion(TopType)
    /\ Scope_find(TopType, TopSyntax.memberName) # 0

-----------------------------------------------------------------------------
\* C5: for every Variable pattern whose non-empty name was declared before
\* it in the same VarMap, at whatever depth: the bind returned an Invalid
\* node without child, exactly one Redefinition was issued at it, noting the
\* location of the first symbol of the name; the first bind of the name
\* returned a Variable node of that symbol, the VarMap maps the name to it,
\* and the symbol of the failed bind is not on the chain of temporaries,
\* which holds the first symbols of the names, latest first.
C5_Redefinition ==
    pc = "bound" =>
        /\ \A j \in Duplicates :
              LET s == syms[j]
                  f == FirstOf(s.name)
              IN  /\ HasNode(s.location)
                  /\ NodeAt(s.location).kind = "Invalid"
                  /\ NodeAt(s.location).child = Null
                  /\ Cardinality(DiagsAt("Redefinition", s.location)) = 1
                  /\ \A d \in DiagsAt("Redefinition", s.location) :
                        diags[d].note = <<syms[f].location>> /\ diags[d].name = s.name
                  /\ HasNode(syms[f].location)
                  /\ NodeAt(syms[f].location).kind = "Variable"
                  /\ NodeAt(syms[f].location).variable = f
                  /\ varMap[s.name] = f
                  /\ s.nextTemp = 0
                  /\ \A c \in DOMAIN TempChain : TempChain[c] # j
        /\ Cardinality({d \in DOMAIN diags : diags[d].code = "Redefinition"})
              = Cardinality(Duplicates)
        /\ {TempChain[c] : c \in DOMAIN TempChain}
              = {j \in DOMAIN syms : syms[j].name # ""} \ Duplicates
        /\ \A c \in 1..(Len(TempChain) - 1) : TempChain[c] > TempChain[c + 1]

\* A name declared inside a nested pattern and again outside of it.
C5_Witness ==
    /\ pc = "bound"
    /\ \E j \in Duplicates :
          /\ Len(syms[j].location) < Len(syms[FirstOf(syms[j].name)].location)
          /\ DiagsAt("Redefinition", syms[j].location) # {}

\* C6: the positional form with k >= 1 members against a struct of n
\* fields issues PatternStructTooFew once when k < n and never otherwise,
\* PatternStructTooMany once, at member n + 1, when k > n and never
\* otherwise; the Structure node built has min(k, n) pairs, pair i on field
\* i; with k = n and no bad sub-pattern the bind returns the Structure node.
C6_PositionalArity ==
    PositionalTop =>
        LET k == Len(TopSyntax.members)
            n == Len(TopType.fields)
            many == {d \in DOMAIN diags : diags[d].code = "PatternStructTooMany"
                                          /\ Len(diags[d].range) = 1}
        IN  /\ Cardinality(DiagsAt("PatternStructTooFew", <<>>)) = IF k < n THEN 1 ELSE 0
            /\ Cardinality(many) = IF k > n THEN 1 ELSE 0
            /\ \A d \in many : diags[d].range = <<n + 1>>
            /\ Built.kind = "Structure"
            /\ Len(Built.patterns) = IF k < n THEN k ELSE n
            /\ \A i \in DOMAIN Built.patterns : Built.patterns[i].field = TopType.fields[i]
            /\ (k = n /\ \A i \in DOMAIN Built.patterns : ~Pattern_bad(Built.patterns[i].pattern))
                  => Top.kind = "Structure"
            /\ k # n => Pattern_bad(Top)

\* Two members more than the struct has fields.
C6_Witness ==
    /\ PositionalTop
    /\ Len(TopSyntax.members) = Len(TopType.fields) + 2
    /\ DiagsAt("PatternStructTooMany", <<Len(TopType.fields) + 1>>) # {}

\* C7: after an eval, whatever its result, the context holds for every
\* Variable node visited the local of its symbol, with the value the node
\* was visited with.
C7_CaptureKept ==
    Evaluated1 =>
        \A i \in DOMAIN visited :
            LET e == visited[i]
                n == VNode(e)
            IN  n.kind = "Variable" =>
                    /\ n.variable \in DOMAIN locals
                    /\ locals[n.variable] = e.value

\* A Variable pair evaluated, then a later pair of the Structure not true.
C7_Witness ==
    /\ Evaluated1
    /\ Top.kind = "Structure"
    /\ Top.patterns[1].pattern.kind = "Variable"
    /\ WasVisited(Top.patterns[1].pattern.syntax)
    /\ ~isTrue(result[1])
    /\ Top.patterns[1].pattern.variable \in DOMAIN locals

\* C8: every Constant node of a bound tree holds an expression that is not
\* bad and has its constant; binding an expression pattern returns a
\* Constant node of the bound expression when the expression is not bad and
\* folds, and an Invalid node without child otherwise; no visit of an eval
\* ends in the failed assertion.
C8_ConstantIffFolds ==
    pc = "bound" =>
        /\ \A n \in Nodes(Top) : n.kind = "Constant" => ~n.expr.bad /\ n.expr.constant # Null
        /\ Strip(TopSyntax).kind = "ExpressionPattern" =>
              LET expr == bindRValue(TopType, Strip(TopSyntax).expr)
              IN  IF ~expr.bad /\ expr.constant # Null
                  THEN Top.kind = "Constant" /\ Top.expr = expr
                  ELSE Top.kind = "Invalid" /\ Top.child = Null
        /\ \A i \in DOMAIN visited : visited[i].cv # AssertionFailure

\* An expression that binds but does not fold.
C8_Witness ==
    /\ pc = "bound"
    /\ TopSyntax = NonConst
    /\ isIntegral(TopType)
    /\ Top.kind = "Invalid"
    /\ Top.child = Null

\* C9: a visit to a Structure node with an integer value v visits the
\* pattern of each pair evaluated with the w-bit value (v >> o) mod 2^w,
\* o and w the offset and the width of the pair's field; on 0xB7 of the
\* struct of the nibbles b (offset 4) and a (offset 0), {a: 7, b: 11} is
\* true and {a: 7, b: 10} is false.
C9_PackedSlice ==
    Evaluated1 =>
        /\ \A i \in DOMAIN visited :
              LET e == visited[i]
                  n == VNode(e)
              IN  (n.kind = "Structure" /\ e.value.k = "int") =>
                    \A j \in DOMAIN n.patterns :
                        WasVisited(n.patterns[j].pattern.syntax) =>
                            LET o == n.patterns[j].field.offset
                                w == getBitWidth(n.patterns[j].field.type)
                            IN  visited[VisitIndex(n.patterns[j].pattern.syntax)].value
                                    = [k |-> "int", w |-> w, v |-> (e.value.v \div (2 ^ o)) % (2 ^ w)]
        /\ (TopType = Packed8 /\ value = <<[k |-> "int", w |-> 8, v |-> 183]>>) =>
              /\ TopSyntax = Named(<<<<"a", Lit(7)>>, <<"b", Lit(11)>>>>) => result = <<True1>>
              /\ TopSyntax = Named(<<<<"a", Lit(7)>>, <<"b", Lit(10)>>>>) => result = <<False1>>

C9_Witness ==
    /\ Evaluated1
    /\ TopType = Packed8
    /\ TopSyntax = Named(<<<<"a", Lit(7)>>, <<"b", Lit(11)>>>>)
    /\ value = <<[k |-> "int", w |-> 8, v |-> 183]>>
    /\ Len(visited) = 3
    /\ result = <<True1>>

\* C10 as stated: once a Structure pattern is bound against a struct, or a
\* Tagged pattern against a tagged union that has its member, the pattern
\* of every member of the syntax is bound.
C10_EverySubPatternBound ==
    /\ (PositionalTop \/ NamedTop) =>
          \A i \in DOMAIN TopSyntax.members :
              HasNode(StripPath(TopSyntax.members[i].pattern[1], <<i, 1>>))
    /\ (TaggedTop /\ TopSyntax.pattern # Null) =>
          HasNode(StripPath(TopSyntax.pattern[1], <<1>>))

\* C10, amended: the pattern of a member is bound exactly when the member
\* resolves to a field, whatever became of the members before it: in the
\* positional form the members up to the number of fields, in the named
\* form the members whose name is a field of the struct; the nested pattern
\* of a Tagged pattern whose member exists is always bound.
C10_ResolvedSubPatternsBound ==
    /\ PositionalTop =>
          \A i \in DOMAIN TopSyntax.members :
              HasNode(StripPath(TopSyntax.members[i].pattern[1], <<i, 1>>))
                  <=> i <= Len(TopType.fields)
    /\ NamedTop =>
          \A i \in DOMAIN TopSyntax.members :
              HasNode(StripPath(TopSyntax.members[i].pattern[1], <<i, 1>>))
                  <=> Scope_find(TopType, TopSyntax.members[i].name) # 0
    /\ (TaggedTop /\ TopSyntax.pattern # Null) =>
          HasNode(StripPath(TopSyntax.pattern[1], <<1>>))

\* The first sub-pattern is bad, a later one declared its variable.
C10_Witness ==
    /\ PositionalTop
    /\ Len(Built.patterns) >= 2
    /\ Pattern_bad(Built.patterns[1].pattern)
    /\ Built.patterns[2].pattern.kind = "Variable"
    /\ "x" \in DOMAIN varMap

-----------------------------------------------------------------------------
\* C11: an eval returns 1-bit true, 1-bit false or the poisoned value, and
\* so does every visit it makes, those of the Tagged and Structure nodes
\* that hand on the result of a sub-pattern included.
TriState == {True1, False1, BadValue}

C11_TriState ==
    Evaluated1 =>
        /\ result[1] \in TriState
        /\ \A i \in DOMAIN visited : visited[i].cv \in TriState

\* A Structure node handing on the poisoned result of a Tagged pair whose
\* union has a payload that is not a 1-bit value.
C11_Witness ==
    /\ Evaluated1
    /\ Top.kind = "Structure"
    /\ Top.patterns[1].pattern.kind = "Tagged"
    /\ isUnpacked(value[1])
    /\ ~bad(value[1].elems[1])
    /\ bad(value[1].elems[1].value[1])
    /\ result = <<BadValue>>

\* C12: an eval of the bound tree against the value of the eval before it,
\* on the context that eval left, returns the same result, creates the same
\* locals in the same order and makes the same visits.
C12_Deterministic ==
    [][(pc = "bound" /\ nevals >= 1 /\ nevals' = nevals + 1 /\ value' = value) =>
            (result' = result /\ created' = created /\ visited' = visited)]_vars

\* A second eval that found locals in the context and created locals.
C12_Witness ==
    /\ pc = "bound"
    /\ nevals = 2
    /\ created # <<>>
    /\ \E m \in Nodes(Top) : m.kind = "Variable" /\ m.variable \in DOMAIN locals
    /\ ~isTrue(result[1])

\* C14: binding wildcard syntax, in parentheses or not, against any type
\* returns a Wildcard node, issues no diagnostic, declares no symbol and
\* leaves the VarMap and the chain of temporaries empty; every visit to a
\* Wildcard node with a value that is not poisoned returns true, and an
\* eval of a Wildcard top node creates no local.
C14_Wildcard ==
    /\ (pc = "bound" /\ Strip(TopSyntax).kind = "WildcardPattern") =>
          /\ Top.kind = "Wildcard"
          /\ diags = <<>>
          /\ DOMAIN varMap = {}
          /\ syms = <<>>
          /\ firstTempVar = 0
          /\ Evaluated1 => created = <<>> /\ Len(visited) = 1
    /\ Evaluated1 =>
          \A i \in DOMAIN visited :
              (VNode(visited[i]).kind = "Wildcard" /\ ~bad(visited[i].value)) =>
                  visited[i].cv = True1

\* A wildcard evaluated on a false value.
C14_Witness ==
    /\ Evaluated1
    /\ TopSyntax = Wild
    /\ Top.kind = "Wildcard"
    /\ value = <<SVInt(1, 0)>>
    /\ result = <<True1>>

-----------------------------------------------------------------------------
\* The symbols of the Variable nodes of the bound tree.  Symbols are
\* numbered in the order their patterns were bound.
VariableSymbols == {n.variable : n \in {m \in Nodes(Top) : m.kind = "Variable"}}

NamedVariableSymbols == {v \in VariableSymbols : syms[v].name # ""}

OnChain(var) == \E c \in DOMAIN TempChain : TempChain[c] = var

Max(S) == CHOOSE x \in S : \A y \in S : y <= x

\* C15 as stated: the symbol of every Variable node a bind returned is
\* reachable from the head of the chain of temporaries.
C15_EveryVariableLinked ==
    pc = "bound" => \A v \in VariableSymbols : OnChain(v)

\* C15, amended: the symbol of a Variable node is reachable from the head
\* of the chain exactly when its name is not empty.
C15_NamedVariableLinked ==
    pc = "bound" => \A v \in VariableSymbols : OnChain(v) <=> syms[v].name # ""

\* Two variables declared in a nested pattern, both on the chain.
C15_Witness ==
    /\ pc = "bound"
    /\ Cardinality(NamedVariableSymbols) >= 2
    /\ \A v \in NamedVariableSymbols : OnChain(v) /\ Len(syms[v].location) >= 3

\* C16 as stated: the head of the chain is the symbol of the Variable node
\* bound last, and the chain lists the symbols of all the Variable nodes,
\* the one bound last first.
C16_HeadIsLastVariable ==
    (pc = "bound" /\ VariableSymbols # {}) =>
        /\ firstTempVar = Max(VariableSymbols)
        /\ {TempChain[c] : c \in DOMAIN TempChain} = VariableSymbols

\* C16, amended: the chain holds the symbols of the Variable nodes with a
\* name, each once: its head is the one bound last (null when there is
\* none), the link of each is the one bound next before it, and the link of
\* the one bound first is null; no other symbol has a link.
C16_ChainOfNamedVariables ==
    pc = "bound" =>
        /\ firstTempVar = IF NamedVariableSymbols = {} THEN 0 ELSE Max(NamedVariableSymbols)
        /\ \A v \in NamedVariableSymbols :
              LET before == {u \in NamedVariableSymbols : u < v}
              IN  syms[v].nextTemp = IF before = {} THEN 0 ELSE Max(before)
        /\ \A j \in DOMAIN syms : j \notin NamedVariableSymbols => syms[j].nextTemp = 0
        /\ Len(TempChain) = Cardinality(NamedVariableSymbols)
        /\ \A c \in 1..(Len(TempChain) - 1) : TempChain[c] > TempChain[c + 1]

\* Three variables on the chain.
C16_Witness ==
    /\ pc = "bound"
    /\ Cardinality(NamedVariableSymbols) = 3
    /\ Len(TempChain) = 3
    /\ firstTempVar = Max(NamedVariableSymbols)

-----------------------------------------------------------------------------
Indices(n) == [i \in 1..n |-> i]

\* Member i of the named form at the top names a field of the struct.
Resolved(i) == Scope_find(TopType, TopSyntax.members[i].name) # 0

\* The path of the pattern of member i of the Structure syntax at the top.
MemberPattern(i) == StripPath(TopSyntax.members[i].pattern[1], <<i, 1>>)

\* C17: in the named form the Structure node built has one pair per member
\* whose name is a field, in syntax order and with no regard to a field
\* named twice: the pair holds that field and the node bound from the
\* member's pattern against the field's type, bad or not.  For a member
\* whose name is no field the pattern is not bound, the bind returns an
\* Invalid node, and UnknownMember is issued once at the member when the
\* name is not empty and not at all when it is.  The bind returns an
\* Invalid node only for such a member or a bad sub-pattern.
C17_NamedForm ==
    NamedTop =>
        LET ms == TopSyntax.members
            idx == SelectSeq(Indices(Len(ms)), Resolved)
        IN  /\ Built.kind = "Structure"
            /\ Len(Built.patterns) = Len(idx)
            /\ \A r \in DOMAIN idx :
                  LET fp == Built.patterns[r]
                  IN  /\ fp.field = TopType.fields[Scope_find(TopType, ms[idx[r]].name)]
                      /\ fp.pattern.syntax = <<MemberPattern(idx[r])>>
                      /\ fp.pattern.kind = "Variable" =>
                            syms[fp.pattern.variable].type = fp.field.type
                      /\ fp.pattern.kind = "Constant" =>
                            fp.pattern.expr.constant[1].w = getBitWidth(fp.field.type)
                      /\ DiagsAt("UnknownMember", <<idx[r]>>) = {}
            /\ \A i \in DOMAIN ms :
                  ~Resolved(i) =>
                      /\ ~HasNode(MemberPattern(i))
                      /\ Pattern_bad(Top)
                      /\ Cardinality(DiagsAt("UnknownMember", <<i>>))
                            = IF ms[i].name # "" THEN 1 ELSE 0
            /\ Pattern_bad(Top) <=>
                  \/ \E i \in DOMAIN ms : ~Resolved(i)
                  \/ \E r \in DOMAIN Built.patterns : Pattern_bad(Built.patterns[r].pattern)

\* A member with an empty name left out, the next one bound.
C17_Witness ==
    /\ NamedTop
    /\ TopSyntax.members[1].name = ""
    /\ Resolved(2)
    /\ Len(Built.patterns) = 1
    /\ Built.patterns[1].pattern.syntax = <<MemberPattern(2)>>
    /\ diags = <<>>
    /\ Pattern_bad(Top)

-----------------------------------------------------------------------------
\* C18: the child of an Invalid node of a bound tree is null, or a Tagged
\* node whose nested pattern is bad, or a Structure node.  Bound at the top:
\* a failed expression and a redefined variable have no child; a Tagged
\* pattern has none when the target is no tagged union or lacks the member,
\* and otherwise the Tagged node of the member is built, returned as it is
\* when the nested pattern is absent or good and wrapped when it is bad; a
\* Structure pattern has none when the target is no struct or the member
\* list is empty, and otherwise the Structure node is built, wrapped exactly
\* when a pair is bad, the arity is wrong or a name is no field.
C18_InvalidChild ==
    pc = "bound" =>
        LET s == Strip(TopSyntax)
        IN  /\ \A n \in Nodes(Top) :
                  (n.kind = "Invalid" /\ n.child # Null) =>
                      /\ n.child[1].kind \in {"Tagged", "Structure"}
                      /\ n.child[1].kind = "Tagged" =>
                            /\ n.child[1].valuePattern # Null
                            /\ Pattern_bad(n.child[1].valuePattern[1])
            /\ (s.kind \in {"ExpressionPattern", "VariablePattern"} /\ Pattern_bad(Top)) =>
                  Top.child = Null
            /\ s.kind = "TaggedPattern" =>
                  IF isTaggedUnion(TopType) /\ Scope_find(TopType, s.memberName) # 0
                  THEN /\ Built.kind = "Tagged"
                       /\ Built.member = TopType.fields[Scope_find(TopType, s.memberName)]
                       /\ (Built.valuePattern = Null) <=> (s.pattern = Null)
                       /\ Pattern_bad(Top) <=>
                             (Built.valuePattern # Null /\ Pattern_bad(Built.valuePattern[1]))
                  ELSE Pattern_bad(Top) /\ Top.child = Null
            /\ s.kind = "StructurePattern" =>
                  IF isStruct(TopType) /\ Len(s.members) >= 1
                  THEN /\ Built.kind = "Structure"
                       /\ Pattern_bad(Top) <=>
                             \/ \E r \in DOMAIN Built.patterns :
                                    Pattern_bad(Built.patterns[r].pattern)
                             \/ Len(Built.patterns) # Len(s.members)
                             \/ /\ s.members[1].kind = "OrderedStructurePatternMember"
                                /\ Len(s.members) # Len(TopType.fields)
                  ELSE Pattern_bad(Top) /\ Top.child = Null

\* A Tagged node kept under the Invalid node returned for it.
C18_Witness ==
    /\ pc = "bound"
    /\ Pattern_bad(Top)
    /\ Top.child # Null
    /\ Top.child[1].kind = "Tagged"
    /\ Pattern_bad(Top.child[1].valuePattern[1])

-----------------------------------------------------------------------------
\* The bind reported nothing and returned an Invalid node without child.
Silent == diags = <<>> /\ Pattern_bad(Top) /\ Top.child = Null

\* The bind reported `d` and nothing else, and returned an Invalid node
\* without child.
Only(d) == diags = <<d>> /\ Pattern_bad(Top) /\ Top.child = Null

\* C19: the bind of a Tagged pattern reports nothing and returns an Invalid
\* node without child when the target is the error type, and when the
\* target is a tagged union, the member name is empty and no member has it;
\* the bind of a Structure pattern does so when the target is the error
\* type and when the member list is empty, whatever the target.  A Tagged
\* pattern on another type that is no tagged union reports PatternTaggedType
\* and nothing else, one naming a member the tagged union lacks reports
\* UnknownMember and nothing else, and a Structure pattern with members on
\* another type that is no struct reports PatternStructType and nothing else.
C19_Suppression ==
    pc = "bound" =>
        LET s == Strip(TopSyntax)
            range == StripPath(TopSyntax, <<>>)
            t == TopType
        IN  /\ s.kind = "TaggedPattern" =>
                  /\ isError(t) => Silent
                  /\ (isTaggedUnion(t) /\ s.memberName = "" /\ Scope_find(t, "") = 0) => Silent
                  /\ (~isTaggedUnion(t) /\ ~isError(t)) =>
                         Only(Diag("PatternTaggedType", range, "", Null))
                  /\ (isTaggedUnion(t) /\ s.memberName # "" /\ Scope_find(t, s.memberName) = 0) =>
                         Only(Diag("UnknownMember", range, s.memberName, Null))
            /\ s.kind = "StructurePattern" =>
                  /\ isError(t) => Silent
                  /\ Len(s.members) = 0 => Silent
                  /\ (~isStruct(t) /\ ~isError(t) /\ Len(s.members) # 0) =>
                         Only(Diag("PatternStructType", range, "", Null))

\* A Structure pattern with members bound against the error type, and
\* nothing reported.
C19_Witness ==
    /\ pc = "bound"
    /\ TopSyntax.kind = "StructurePattern"
    /\ Len(TopSyntax.members) >= 1
    /\ isError(TopType)
    /\ diags = <<>>

-----------------------------------------------------------------------------
\* C20: a visit to a Tagged node with a union value that is not poisoned and
\* whose active member is the node's member: when the node has a nested
\* pattern, the visit completed just before it is the visit to the nested
\* pattern with the payload of the union, the Tagged visit returns what that
\* visit returned, and every Variable node visited under it has its local;
\* when the node has no nested pattern the visit returns 1-bit true, and at
\* the top it is the only visit and no local is created.
C20_TaggedMatch ==
    Evaluated1 =>
        \A i \in DOMAIN visited :
            LET e == visited[i]
                n == VNode(e)
            IN  (n.kind = "Tagged" /\ ~bad(e.value) /\ e.value.activeMember = n.member.offset) =>
                    IF n.valuePattern # Null
                    THEN /\ i > 1
                         /\ visited[i - 1] = Visit(n.valuePattern[1], e.value.value[1], e.cv)
                         /\ e.cv \in {True1, False1, BadValue}
                         /\ \A m \in Nodes(n.valuePattern[1]) :
                               (m.kind = "Variable" /\ WasVisited(m.syntax)) =>
                                   /\ Captured(m.variable)
                                   /\ locals[m.variable] = visited[VisitIndex(m.syntax)].value
                    ELSE /\ e.cv = True1
                         /\ n = Top => created = <<>> /\ Len(visited) = 1

\* A matching Tagged node handing on the poisoned result of its nested
\* pattern.
C20_Witness ==
    /\ Evaluated1
    /\ Top.kind = "Tagged"
    /\ Top.valuePattern # Null
    /\ ~bad(value[1])
    /\ value[1].activeMember = Top.member.offset
    /\ visited[1] = Visit(Top.valuePattern[1], value[1].value[1], BadValue)
    /\ result = <<BadValue>>

-----------------------------------------------------------------------------
(* Evaluations of the bound pattern running at the same time.  Each has    *)
(* its own EvalContext and its own value; the tree is shared.  An          *)
(* evaluation advances one call, one return or one loop iteration at a     *)
(* time, and the evaluations interleave between any two of these.          *)

RECURSIVE Deref(_, _)
\* The node of the shared tree a frame points to: from `p` through
\* valuePattern (any selector) and patterns[i].pattern (selector i).
Deref(p, at) ==
    IF at = <<>> THEN p
    ELSE IF p.kind = "Tagged" THEN Deref(p.valuePattern[1], Tail(at))
    ELSE Deref(p.patterns[Head(at)].pattern, Tail(at))

\* The frame of a call of Pattern::eval on the node at `at` with `v`.
VisitFrame(at, v) == [op |-> "visit", at |-> at, v |-> v, i |-> 0]

\* The frame of StructurePattern::evalImpl in its loop, at pair i.
FieldsFrame(at, v, i) == [op |-> "fields", at |-> at, v |-> v, i |-> i]

\* The EvalContext of an evaluation.
ContextOf(th) == [locals |-> th.locals, created |-> th.created, visited |-> <<>>]

\* return cv
Return(th, cv) == [th EXCEPT !.stack = SubSeq(@, 1, Len(@) - 1), !.ret = <<cv>>]

\* A call of Pattern::eval from the frame on top.
Call(th, at, v) == [th EXCEPT !.stack = Append(@, VisitFrame(at, v))]

\* The frame on top goes on as `f`.
Replace(th, f) == [th EXCEPT !.stack = [@ EXCEPT ![Len(@)] = f]]

\* VariablePattern::evalImpl creating the local in the context of one
\* evaluation, whichever evaluation calls it.
VariablePattern_evalStep_StaticContext(ths, t, p, v) ==
    LET r == VariablePattern_evalImpl(p, ContextOf(ths["t1"]), v)
        w == [ths EXCEPT !["t1"].locals = r.context.locals,
                         !["t1"].created = r.context.created]
    IN  [w EXCEPT ![t] = Return(@, r.cv)]

\* VariablePattern::evalImpl in evaluation t: the local is created in the
\* context the evaluation was given.
VariablePattern_evalStep(ths, t, p, v) ==
    LET r == VariablePattern_evalImpl(p, ContextOf(ths[t]), v)
    IN  [ths EXCEPT ![t] = Return([@ EXCEPT !.locals = r.context.locals,
                                            !.created = r.context.created], r.cv)]

\* TaggedPattern::evalImpl calling, on a match, eval on its own node in
\* place of the nested pattern.
TaggedPattern_evalStep_Reenter(th, at, p, v) ==
    IF bad(v) THEN Return(th, BadValue)
    ELSE IF v.activeMember # p.member.offset THEN Return(th, SVInt(1, 0))
    ELSE IF p.valuePattern # Null THEN Replace(th, VisitFrame(at, v))
    ELSE Return(th, SVInt(1, 1))

\* TaggedPattern::evalImpl up to its call of the nested pattern, whose
\* result it returns as it is.
TaggedPattern_evalStep(th, at, p, v) ==
    IF bad(v) THEN Return(th, BadValue)
    ELSE IF v.activeMember # p.member.offset THEN Return(th, SVInt(1, 0))
    ELSE IF p.valuePattern # Null THEN Replace(th, VisitFrame(at \o <<1>>, v.value[1]))
    ELSE Return(th, SVInt(1, 1))

\* StructurePattern::evalImpl up to its loop.
StructurePattern_evalStep(th, at, p, v) ==
    IF bad(v) THEN Return(th, BadValue)
    ELSE Replace(th, FieldsFrame(at, v, 1))

\* The value handed to the pattern of a pair: the element of the field, or
\* the bits of the field.
FieldValue(fp, v) ==
    IF isUnpacked(v) THEN v.elems[fp.field.offset + 1]
    ELSE LET io == fp.field.offset
             width == getBitWidth(fp.field.type)
         IN  slice(v, width + io - 1, io)

\* One iteration of the loop of StructurePattern::evalImpl: the call for
\* pair i, or what is done with the result it returned.
FieldsStep(th, top, p) ==
    IF th.ret = Null
    THEN IF top.i > Len(p.patterns) THEN Return(th, SVInt(1, 1))
         ELSE Call(th, top.at \o <<top.i>>, FieldValue(p.patterns[top.i], top.v))
    ELSE IF ~isTrue(th.ret[1]) THEN Return(th, th.ret[1])
    ELSE [Replace(th, FieldsFrame(top.at, top.v, top.i + 1)) EXCEPT !.ret = Null]

\* The next step of evaluation t, on the frame on top of its stack.
EvalStep(ths, t) ==
    LET th == ths[t]
        top == th.stack[Len(th.stack)]
        p == Deref(pattern[1], top.at)
        v == top.v
        n == IF Pattern_bad(p) THEN [ths EXCEPT ![t] = Return(th, BadValue)]
             ELSE CASE p.kind = "Wildcard" ->
                         [ths EXCEPT ![t] = Return(th, WildcardPattern_evalImpl(p, ContextOf(th), v).cv)]
                    [] p.kind = "Constant" ->
                         [ths EXCEPT ![t] = Return(th, ConstantPattern_evalImpl(p, ContextOf(th), v).cv)]
                    [] p.kind = "Variable" -> VariablePattern_evalStep(ths, t, p, v)
                    [] p.kind = "Tagged" -> [ths EXCEPT ![t] = TaggedPattern_evalStep(th, top.at, p, v)]
                    [] p.kind = "Structure" -> [ths EXCEPT ![t] = StructurePattern_evalStep(th, top.at, p, v)]
    IN  IF top.op = "fields" THEN [ths EXCEPT ![t] = FieldsStep(th, top, p)]
        ELSE [n EXCEPT ![t].visits = @ \cup {top.at},
                       ![t].again = @ \/ top.at \in th.visits]

\* Evaluation t is under way.
Running(t) == threads[t].status = "running" /\ threads[t].stack # <<>>

\* Evaluation t has returned.
Done(t) == threads[t].status = "running" /\ threads[t].stack = <<>>

RECURSIVE Sound(_)
\* A value none of whose components is poisoned.
Sound(v) ==
    /\ ~bad(v)
    /\ isUnpacked(v) => \A i \in DOMAIN v.elems : Sound(v.elems[i])
    /\ v.k = "union" => Sound(v.value[1])

\* The values evaluations are run on at the same time: the poisoned value
\* and the values without a poisoned component.
ConcValues(t) == {v \in InputValues(t) : bad(v) \/ Sound(v)}

\* pattern.eval(context, v) begins in evaluation t, on a fresh context.
Start(t, v) ==
    /\ pc = "bound"
    /\ threads[t].status = "idle"
    /\ threads' = [threads EXCEPT ![t] =
                      [IdleThread EXCEPT !.status = "running",
                                         !.value = <<v>>,
                                         !.stack = <<VisitFrame(<<>>, v)>>,
                                         !.overlap = \E u \in Threads \ {t} : Running(u)]]
    /\ UNCHANGED <<pc, syntax, targetType, pattern, varMap, syms, firstTempVar, diags,
                   value, result, locals, created, visited, nevals>>

\* Evaluation t advances by one step.
Step(t) ==
    /\ pc = "bound"
    /\ Running(t)
    /\ threads' = EvalStep(threads, t)
    /\ UNCHANGED <<pc, syntax, targetType, pattern, varMap, syms, firstTempVar, diags,
                   value, result, locals, created, visited, nevals>>

NextConc ==
    \/ \E syn \in SyntaxSet, t \in TypeSet : Bind(syn, t)
    \/ pc = "bound" /\ \E t \in Threads, v \in ConcValues(targetType[1]) : Start(t, v)
    \/ \E t \in Threads : Step(t)

SpecConc == Init /\ [][NextConc]_vars

\* What pattern.eval(context, v) returns and leaves in a fresh context when
\* nothing else runs.
Alone(v) ==
    LET r == Pattern_eval(Top, [locals |-> <<>>, created |-> <<>>, visited |-> <<>>], v)
    IN  [ret |-> <<r.cv>>, locals |-> r.context.locals, created |-> r.context.created]

\* C13: however the steps of the evaluations of one bound pattern
\* interleave, each on its own context and its own value, an evaluation
\* that has returned has returned what it returns alone and has created, in
\* its context, the locals it creates alone, in the same order; and no step
\* of the program changes the bound tree.
C13_Concurrent ==
    /\ [](\A t \in Threads :
              Done(t) =>
                  LET th == threads[t]
                  IN  [ret |-> th.ret, locals |-> th.locals, created |-> th.created]
                          = Alone(th.value[1]))
    /\ [][pc = "bound" => pattern' = pattern]_vars

\* Both evaluations have returned, one having begun while the other was
\* under way, on different values, each with locals in its context.
C13_Witness ==
    /\ \A t \in Threads : Done(t) /\ threads[t].created # <<>>
    /\ \E t \in Threads : threads[t].overlap
    /\ threads["t1"].value # threads["t2"].value
    /\ threads["t1"].locals # threads["t2"].locals

-----------------------------------------------------------------------------
\* C21: a visit to a Structure node with a value held as a list of elements:
\* the offset of the field of every pair of the node is an index of the
\* list, and every pair that was evaluated was given the element at the
\* offset of its field, wherever the pair stands in the list of pairs.
C21_ElementByOffset ==
    Evaluated1 =>
        \A i \in DOMAIN visited :
            LET e == visited[i]
                n == VNode(e)
            IN  (n.kind = "Structure" /\ ~bad(e.value) /\ isUnpacked(e.value)) =>
                    \A r \in DOMAIN n.patterns :
                        LET fp == n.patterns[r]
                        IN  /\ fp.field.offset + 1 \in DOMAIN e.value.elems
                            /\ WasVisited(fp.pattern.syntax) =>
                                   visited[VisitIndex(fp.pattern.syntax)].value
                                       = e.value.elems[fp.field.offset + 1]

\* A Structure node whose first pair is for the second field, evaluated on
\* a list whose first two elements differ: the pair was given the second.
C21_Witness ==
    /\ Evaluated1
    /\ Top.kind = "Structure"
    /\ ~bad(value[1])
    /\ isUnpacked(value[1])
    /\ Top.patterns[1].field.offset = 1
    /\ value[1].elems[1] # value[1].elems[2]
    /\ visited[1] = Visit(Top.patterns[1].pattern, value[1].elems[2], True1)

-----------------------------------------------------------------------------
RECURSIVE SyntaxAt(_, _)
\* The syntax node at `path` under syn: the pattern of a parenthesized
\* pattern, a Tagged pattern or a member, member i of a Structure pattern.
SyntaxAt(syn, path) ==
    IF path = <<>> THEN syn
    ELSE IF syn.kind = "StructurePattern" THEN SyntaxAt(syn.members[Head(path)], Tail(path))
    ELSE SyntaxAt(syn.pattern[1], Tail(path))

\* C22: no node of a bound tree records a parenthesized pattern as its
\* syntax; and the bind of a parenthesized pattern, at any depth of
\* parentheses, returns the node, the diagnostics, the Variable Table, the
\* symbols and the chain of temporaries that the bind of the innermost
\* pattern returns for the same target type from the same table and
\* context, the syntax of the node being the innermost pattern.
C22_ParenTransparent ==
    pc = "bound" =>
        /\ \A n \in Nodes(Top) :
              n.syntax # Null => SyntaxAt(TopSyntax, n.syntax[1]).kind # "ParenthesizedPattern"
        /\ TopSyntax.kind = "ParenthesizedPattern" =>
              LET inner == StripPath(TopSyntax, <<>>)
                  b == Pattern_bind(Strip(TopSyntax), inner, TopType, NoBindState)
              IN  /\ pattern = <<b.pattern>>
                  /\ Top.syntax = <<inner>>
                  /\ diags = b.st.diags
                  /\ varMap = b.st.varMap
                  /\ syms = b.st.syms
                  /\ firstTempVar = b.st.firstTempVar

\* A variable pattern in two pairs of parentheses, bound: a Variable node
\* for the variable pattern, its symbol in the table and on the chain.
C22_Witness ==
    /\ pc = "bound"
    /\ TopSyntax.kind = "ParenthesizedPattern"
    /\ TopSyntax.pattern[1].kind = "ParenthesizedPattern"
    /\ Top.kind = "Variable"
    /\ Top.syntax = <<<<1, 1>>>>
    /\ varMap # <<>>
    /\ firstTempVar = Top.variable

-----------------------------------------------------------------------------
\* C23: when the node a bind returned is not bad, no node of the tree is an
\* Invalid node; and an eval of such a tree on a value none of whose
\* components is poisoned does not return the poisoned value.
C23_GoodTreeHasNoInvalid ==
    (pc = "bound" /\ ~Pattern_bad(Top)) =>
        /\ \A n \in Nodes(Top) : n.kind # "Invalid"
        /\ (nevals > 0 /\ Sound(value[1])) => result # <<BadValue>>

\* A good Structure node with a Tagged node under it, evaluated on a value
\* without poisoned component.
C23_Witness ==
    /\ Evaluated1
    /\ ~Pattern_bad(Top)
    /\ Top.kind = "Structure"
    /\ \E n \in Below(Top) : n.kind = "Tagged" /\ n.valuePattern # Null
    /\ Sound(value[1])
    /\ result # <<BadValue>>

-----------------------------------------------------------------------------
\* The diagnostics of the pattern binder.
PatternDiags ==
    {"Redefinition", "PatternTaggedType", "PatternStructType", "UnknownMember",
     "PatternStructTooMany", "PatternStructTooFew"}

\* C24: the diagnostics a bind issued are diagnostics of the pattern
\* binder, and when it issued one, at whatever depth, the node the bind
\* returned is bad: a good result has no diagnostic.
C24_DiagnosticMeansBad ==
    pc = "bound" =>
        /\ \A d \in DOMAIN diags : diags[d].code \in PatternDiags
        /\ diags # <<>> => Pattern_bad(Top)

\* A Redefinition issued two levels under the top, and the top is bad.
C24_Witness ==
    /\ pc = "bound"
    /\ \E d \in DOMAIN diags : diags[d].code = "Redefinition" /\ Len(diags[d].range) >= 4
    /\ Pattern_bad(Top)

-----------------------------------------------------------------------------
\* C25: whether or not the node a bind returned is bad, every name under
\* which the bind created a symbol is in the Variable Table, mapped to the
\* first symbol created under it; that symbol is on the chain of
\* temporaries and the Variable node made for it is in the tree; and every
\* later variable pattern of the name was answered with an Invalid node and
\* a Redefinition noting the location of the first.
C25_NoRollback ==
    pc = "bound" =>
        \A j \in DOMAIN syms :
            LET s == syms[j]
                f == FirstOf(s.name)
            IN  s.name # "" =>
                    /\ s.name \in DOMAIN varMap
                    /\ varMap[s.name] = f
                    /\ OnChain(f)
                    /\ HasNode(syms[f].location)
                    /\ NodeAt(syms[f].location) = [VariablePattern(f) EXCEPT !.syntax = <<syms[f].location>>]
                    /\ j # f =>
                          /\ HasNode(s.location)
                          /\ Pattern_bad(NodeAt(s.location))
                          /\ \E d \in DiagsAt("Redefinition", s.location) :
                                diags[d].note = <<syms[f].location>>

\* A variable bound inside a Structure pattern that failed on another
\* member, under a Tagged pattern: the Tagged node is wrapped, the variable
\* is in the table and on the chain, and the variable pattern of the same
\* name after it is rejected.
C25_Witness ==
    /\ pc = "bound"
    /\ Pattern_bad(Top)
    /\ Built.kind = "Structure"
    /\ Len(Built.patterns) = 2
    /\ Pattern_bad(Built.patterns[1].pattern)
    /\ Built.patterns[1].pattern.child # Null
    /\ Built.patterns[1].pattern.child[1].kind = "Tagged"
    /\ DOMAIN varMap = {"x"}
    /\ OnChain(varMap["x"])
    /\ syms[varMap["x"]].location = <<1, 1, 1, 1, 1>>
    /\ DiagsAt("Redefinition", <<2, 1>>) # {}
    /\ Len(diags) = 1

-----------------------------------------------------------------------------
(* One evaluation of the bound pattern, stepped, that goes on whenever it  *)
(* can: evaluation is synchronous and has no suspension point.             *)

NextTerm ==
    \/ \E syn \in SyntaxSet, t \in TypeSet : Bind(syn, t)
    \/ pc = "bound" /\ \E v \in InputValues(targetType[1]) : Start("t1", v)
    \/ Step("t1")

SpecTerm == Init /\ [][NextTerm]_vars /\ WF_vars(Step("t1"))

\* The Variable nodes of the bound tree.
VariableNodes == {n \in Nodes(Top) : n.kind = "Variable"}

\* C26: an eval that has begun returns; and at every step of it, it has
\* called Pattern::eval on no node twice, it has created no two locals for
\* one symbol, and it has created no more locals than the tree has
\* Variable nodes.
C26_Terminates ==
    /\ (threads["t1"].status = "running") ~> Done("t1")
    /\ [](pc = "bound" =>
             LET th == threads["t1"]
             IN  /\ ~th.again
                 /\ Cardinality(th.visits) <= Cardinality(Nodes(Top))
                 /\ \A a, b \in DOMAIN th.created :
                       th.created[a][1] = th.created[b][1] => a = b
                 /\ Len(th.created) <= Cardinality(VariableNodes))

\* An eval that has returned true after calls on four nodes, one of them
\* two levels under the top, and two locals.
C26_Witness ==
    /\ Done("t1")
    /\ threads["t1"].ret = <<True1>>
    /\ Cardinality(threads["t1"].visits) = 4
    /\ \E at \in threads["t1"].visits : Len(at) = 2
    /\ Len(threads["t1"].created) = 2

====
